---------------------------- MODULE Spec2Model ----------------------------
(***************************************************************************)
(* jattach: one invocation of main() against one target process, together  *)
(* with the part of the environment the code talks to: the file at the     *)
(* channel path /tmp/.java_pid<pid>, the two marker paths, the target      *)
(* process (alive or not, signal pending, listening or not), the peer's    *)
(* end of the connection and descriptor 1.                                 *)
(*                                                                         *)
(* Every system call of the source is one step, so that the target can     *)
(* change state between any two of them.  Strings are sequences of byte    *)
(* values; 0 is the terminating NUL.                                       *)
(***************************************************************************)
EXTENDS Integers, Sequences, FiniteSets, TLC

VARIABLES
    pc,            \* position of the invocation in main / its callees
    argc,          \* main's argc (program name included)
    argv,          \* argv + 2: the command and its arguments
    alive,         \* the target process exists
    chan,          \* what is at /tmp/.java_pid<pid>: "absent", "file", "socket"
    listening,     \* the target accepts connections on the channel
    sigPending,    \* a SIGQUIT was delivered and is not handled yet
    marker,        \* which marker paths hold a file
    cwdCreatable,  \* creat() in /proc/<pid>/cwd is permitted
    tmpCreatable,  \* creat() in /tmp is permitted
    sigPerm,       \* the caller may signal the target
    path,          \* start_attach_mechanism's path buffer
    retry,         \* start_attach_mechanism's retry
    result,        \* start_attach_mechanism's result
    initCheck,     \* what main's own check_socket call returned
    fd,            \* main's socket descriptor: "none", "open", "closed"
    i,             \* write_command's i
    buf,           \* read_response's buf[0 .. bytes-1], until it is written out
    peer,          \* bytes the peer has sent and the client has not read
    peerClosed,    \* the peer has closed its end
    stdoutTty,     \* stdout is a terminal (line buffered)
    stdioBuf,      \* bytes printf has buffered and not yet written
    out,           \* everything descriptor 1 has accepted, in order
    exitCode,      \* the invocation's exit status, -1 while running
    respLeft,      \* bytes the peer will still send
    reqWrites,     \* the buffers handed to write(fd, ...), one per call
    wire,          \* the bytes the peer has received
    recvd,         \* the bytes read(fd, ...) has returned
    ioFailed,      \* a write(fd, ...) or the read(fd, ...) returned -1
    cnt,           \* how often each call was made
    sigA,          \* what became of the SIGQUIT this invocation sent
    pcB,           \* position of a second invocation against the same target
    pathB,         \* the second invocation's path buffer
    retryB,        \* the second invocation's retry
    resultB        \* the second invocation's result

(***************************************************************************)
(* Bounds of the model.                                                    *)
(***************************************************************************)
\* Most strings the caller passes after the pid.
MaxArgs == 5
\* Longest response the peer sends.
MaxResp == 3
\* sizeof(buf) of read_response, scaled down from 1024 so that a response
\* of MaxResp bytes needs more than one read.
BufSize == 2

(***************************************************************************)
(* Program constants.                                                      *)
(***************************************************************************)
\* the loop bound of "++retry < 10"
MaxRetry == 10
\* the loop bound of "i < 4" in write_command
NumFields == 4
\* Faulty variant: "argc < 2"
MinArgc_Two == 3 - 1
\* main's "argc < 3"
MinArgc == 3

NUL == 0
\* "1", the protocol version
VersionStr == <<49>>
\* "threaddump"
threaddump == <<116, 104, 114, 101, 97, 100, 100, 117, 109, 112>>

\* The lines main prints, each one token of the output stream.
MsgUsage == -1
MsgNoStart == -2
MsgNoConnect == -3
MsgConnected == -4
MsgNewline == -5

\* Exit status of a process killed by SIGPIPE (signal 13), as a shell reports it.
KilledBySigpipe == 128 + 13

Commands == {threaddump, <<108>>}
ArgStrings == {<<>>, <<97>>}
RespBytes == {120, 121}

RECURSIVE SeqsUpTo(_, _)
SeqsUpTo(S, n) ==
    IF n = 0 THEN {<<>>}
    ELSE LET shorter == SeqsUpTo(S, n - 1)
         IN  shorter \cup {Append(s, x) : s \in {t \in shorter : Len(t) = n - 1}, x \in S}

Min(a, b) == IF a < b THEN a ELSE b

RECURSIVE Flatten(_)
Flatten(ss) == IF ss = <<>> THEN <<>> ELSE Head(ss) \o Flatten(Tail(ss))

env == <<alive, chan, listening, sigPending, marker>>
static == <<argc, argv, cwdCreatable, tmpCreatable, sigPerm, stdoutTty>>
activation == <<path, retry, result, initCheck>>
session == <<fd, i, buf, peer, peerClosed, respLeft, reqWrites, wire, recvd, ioFailed>>
stdio == <<stdioBuf, out, exitCode>>
invB == <<pcB, pathB, retryB, resultB>>
vars == <<pc, env, static, activation, session, stdio, cnt, sigA, invB>>

Calls == {"creat", "creatOk", "unlink", "unlinkOk", "kill", "killOk", "sleep",
          "check", "poll", "socket", "connect", "close"}

Count(call) == [cnt EXCEPT ![call] = @ + 1]
Count2(a, b) == [cnt EXCEPT ![a] = @ + 1, ![b] = @ + 1]

(***************************************************************************)
(* The initial states: the arguments and the environment the invocation    *)
(* finds.  A channel can be a stale socket file of a target that is gone;  *)
(* a target listens only on a socket that exists.                          *)
(***************************************************************************)
ArgLists == {<<c>> \o a : c \in Commands, a \in SeqsUpTo(ArgStrings, MaxArgs - 1)}

InitEnv ==
    /\ alive \in BOOLEAN
    /\ chan \in {"absent", "file", "socket"}
    /\ listening \in {FALSE, alive /\ chan = "socket"}
    /\ sigPending = FALSE
    /\ marker = [l \in {"primary", "fallback"} |-> FALSE]
    /\ cwdCreatable \in BOOLEAN
    /\ tmpCreatable \in BOOLEAN
    /\ sigPerm \in BOOLEAN

InitProgram ==
    /\ pc = "main"
    /\ path = "none"
    /\ retry = 0
    /\ result = FALSE
    /\ initCheck = FALSE
    /\ fd = "none"
    /\ i = 0
    /\ buf = <<>>
    /\ peer = <<>>
    /\ peerClosed = FALSE
    /\ stdioBuf = <<>>
    /\ out = <<>>
    /\ exitCode = -1
    /\ reqWrites = <<>>
    /\ wire = <<>>
    /\ recvd = <<>>
    /\ ioFailed = FALSE
    /\ cnt = [c \in Calls |-> 0]
    /\ sigA = "none"
    /\ pathB = "none"
    /\ retryB = 0
    /\ resultB = FALSE

\* The whole program, a few argument lists, the full response budget.
Init ==
    /\ InitProgram
    /\ InitEnv
    /\ \/ argc \in {1, 2} /\ argv = <<>>
       \/ argv \in {<<threaddump>>, <<<<108>>, <<97>>>>} /\ argc = Len(argv) + 2
    /\ stdoutTty \in BOOLEAN
    /\ respLeft = MaxResp
    /\ pcB = "none"


(***************************************************************************)
(* stdio: printf appends to the stream's buffer; a line written to a       *)
(* terminal is flushed at its newline, anything else when main returns.    *)
(* Every line main prints ends in a newline.                               *)
(***************************************************************************)
Printf(st, msg) ==
    IF stdoutTty
    THEN [out |-> st.out \o st.buf \o <<msg>>, buf |-> <<>>]
    ELSE [out |-> st.out, buf |-> Append(st.buf, msg)]

Flush(st) == [out |-> st.out \o st.buf, buf |-> <<>>]

Stdio == [out |-> out, buf |-> stdioBuf]

\* printf(msg); return code;  from main
PrintAndReturn(msg, code) ==
    LET st == Flush(Printf(Stdio, msg))
    IN  /\ out' = st.out
        /\ stdioBuf' = st.buf
        /\ exitCode' = code
        /\ pc' = "exited"

(***************************************************************************)
(* check_socket: stat() succeeds and the file is a socket.                 *)
(***************************************************************************)
check_socket == chan = "socket"

(***************************************************************************)
(* main, up to the call of start_attach_mechanism.                         *)
(***************************************************************************)
main_usage ==
    /\ pc = "main"
    /\ argc < MinArgc
    /\ PrintAndReturn(MsgUsage, 1)
    /\ UNCHANGED <<env, static, activation, session, cnt>>
    /\ UNCHANGED <<sigA, invB>>

\* Faulty variant: "||" for "&&": the activator runs whatever the check found
NeedsActivation_Always(found) == TRUE

\* "!check_socket(pid) && ...": the right operand runs only if the left holds
NeedsActivation(found) == ~found

main_check_socket ==
    /\ pc = "main"
    /\ argc >= MinArgc
    /\ initCheck' = check_socket
    /\ cnt' = Count("check")
    /\ pc' = IF NeedsActivation(check_socket) THEN "creat_primary" ELSE "socket"
    /\ UNCHANGED <<env, static, path, retry, result, session, stdio>>
    /\ UNCHANGED <<sigA, invB>>

(***************************************************************************)
(* start_attach_mechanism.                                                 *)
(***************************************************************************)
\* creat("/proc/<pid>/cwd/.attach_pid<pid>"): the path resolves only while
\* the target exists
CreatablePrimary == alive /\ cwdCreatable

\* creat("/tmp/.attach_pid<pid>")
CreatableFallback == tmpCreatable

\* Faulty variant: the second creat runs whatever the first returned
start_attach_creat_primary_then_fallback ==
    /\ pc = "creat_primary"
    /\ path' = "primary"
    /\ IF CreatablePrimary
       THEN /\ marker' = [marker EXCEPT !["primary"] = TRUE]
            /\ cnt' = Count2("creat", "creatOk")
       ELSE /\ marker' = marker
            /\ cnt' = Count("creat")
    /\ pc' = "creat_fallback"
    /\ UNCHANGED <<alive, chan, listening, sigPending, static, retry, result,
                   initCheck, session, stdio>>
    /\ UNCHANGED <<sigA, invB>>

start_attach_creat_primary ==
    /\ pc = "creat_primary"
    /\ path' = "primary"
    /\ IF CreatablePrimary
       THEN /\ marker' = [marker EXCEPT !["primary"] = TRUE]
            /\ cnt' = Count2("creat", "creatOk")
            /\ pc' = "kill"
       ELSE /\ marker' = marker
            /\ cnt' = Count("creat")
            /\ pc' = "creat_fallback"
    /\ UNCHANGED <<alive, chan, listening, sigPending, static, retry, result,
                   initCheck, session, stdio>>
    /\ UNCHANGED <<sigA, invB>>

\* Faulty variant: no "return 0" when the second creat fails too
start_attach_creat_fallback_no_return ==
    /\ pc = "creat_fallback"
    /\ path' = "fallback"
    /\ IF CreatableFallback
       THEN /\ marker' = [marker EXCEPT !["fallback"] = TRUE]
            /\ cnt' = Count2("creat", "creatOk")
       ELSE /\ marker' = marker
            /\ cnt' = Count("creat")
    /\ pc' = "kill"
    /\ UNCHANGED <<alive, chan, listening, sigPending, static, retry, result,
                   initCheck, session, stdio>>
    /\ UNCHANGED <<sigA, invB>>

start_attach_creat_fallback ==
    /\ pc = "creat_fallback"
    /\ path' = "fallback"
    /\ IF CreatableFallback
       THEN /\ marker' = [marker EXCEPT !["fallback"] = TRUE]
            /\ cnt' = Count2("creat", "creatOk")
            /\ pc' = "kill"
            /\ result' = result
       ELSE /\ marker' = marker
            /\ cnt' = Count("creat")
            /\ pc' = "attach_ret"
            /\ result' = FALSE
    /\ UNCHANGED <<alive, chan, listening, sigPending, static, retry,
                   initCheck, session, stdio>>
    /\ UNCHANGED <<sigA, invB>>

\* kill(pid, SIGQUIT): delivered iff the target exists and the caller may
\* signal it; the code does not look at what kill returns
KillDelivered == alive /\ sigPerm

start_attach_kill ==
    /\ pc = "kill"
    /\ IF KillDelivered
       THEN sigPending' = TRUE /\ cnt' = Count2("kill", "killOk")
       ELSE sigPending' = sigPending /\ cnt' = Count("kill")
    /\ sigA' = IF KillDelivered THEN "pending" ELSE sigA
    /\ retry' = 0
    /\ pc' = "sleep"
    /\ UNCHANGED <<alive, chan, listening, marker, static, path, result,
                   initCheck, session, stdio, invB>>

start_attach_sleep ==
    /\ pc = "sleep"
    /\ cnt' = Count("sleep")
    /\ pc' = "poll"
    /\ UNCHANGED <<env, static, activation, session, stdio>>
    /\ UNCHANGED <<sigA, invB>>

\* Faulty variant: "retry++ < 10": one attempt too many
LoopAgain_OffByOne(res, r) == ~res /\ r < MaxRetry

\* Faulty variant: "while (++retry < 10)": polls on after the channel was seen
LoopAgain_IgnoreResult(res, r) == r + 1 < MaxRetry

\* "while (!result && ++retry < 10)"
LoopAgain(res, r) == ~res /\ r + 1 < MaxRetry

start_attach_poll ==
    /\ pc = "poll"
    /\ result' = check_socket
    /\ cnt' = Count2("check", "poll")
    /\ retry' = IF check_socket THEN retry ELSE retry + 1
    /\ pc' = IF LoopAgain(check_socket, retry) THEN "sleep" ELSE "unlink"
    /\ UNCHANGED <<env, static, path, initCheck, session, stdio>>
    /\ UNCHANGED <<sigA, invB>>

\* unlink(path) removes the file iff the path still resolves to one; the
\* code does not look at what unlink returns
Unlinkable(p) == marker[p] /\ (p = "primary" => alive)

\* Faulty variant: the marker is removed on the timeout path only
start_attach_unlink_on_timeout ==
    /\ pc = "unlink"
    /\ IF Unlinkable(path) /\ ~result
       THEN /\ marker' = [marker EXCEPT ![path] = FALSE]
            /\ cnt' = Count2("unlink", "unlinkOk")
       ELSE /\ marker' = marker
            /\ cnt' = IF result THEN cnt ELSE Count("unlink")
    /\ pc' = "attach_ret"
    /\ UNCHANGED <<alive, chan, listening, sigPending, static, activation,
                   session, stdio>>
    /\ UNCHANGED <<sigA, invB>>

start_attach_unlink ==
    /\ pc = "unlink"
    /\ IF Unlinkable(path)
       THEN /\ marker' = [marker EXCEPT ![path] = FALSE]
            /\ cnt' = Count2("unlink", "unlinkOk")
       ELSE /\ marker' = marker
            /\ cnt' = Count("unlink")
    /\ pc' = "attach_ret"
    /\ UNCHANGED <<alive, chan, listening, sigPending, static, activation,
                   session, stdio>>
    /\ UNCHANGED <<sigA, invB>>

(***************************************************************************)
(* main, at the return of start_attach_mechanism.                          *)
(***************************************************************************)
main_attach_failed ==
    /\ pc = "attach_ret"
    /\ ~result
    /\ PrintAndReturn(MsgNoStart, 1)
    /\ UNCHANGED <<env, static, activation, session, cnt>>
    /\ UNCHANGED <<sigA, invB>>

\* Faulty variant: main goes on to connect whatever the activator returned
main_attach_done_unchecked ==
    /\ pc = "attach_ret"
    /\ pc' = "socket"
    /\ UNCHANGED <<env, static, activation, session, stdio, cnt>>
    /\ UNCHANGED <<sigA, invB>>

main_attach_done ==
    /\ pc = "attach_ret"
    /\ result
    /\ pc' = "socket"
    /\ UNCHANGED <<env, static, activation, session, stdio, cnt>>
    /\ UNCHANGED <<sigA, invB>>

(***************************************************************************)
(* connect_socket.                                                         *)
(***************************************************************************)
connect_socket_socket ==
    /\ pc = "socket"
    /\ fd' = "open"
    /\ cnt' = Count("socket")
    /\ pc' = "connect"
    /\ UNCHANGED <<env, static, activation, i, buf, peer, peerClosed, respLeft,
                   reqWrites, wire, recvd, ioFailed, stdio>>
    /\ UNCHANGED <<sigA, invB>>

\* socket() returns -1 (no descriptor left): connect_socket returns -1
connect_socket_socket_fails ==
    /\ pc = "socket"
    /\ cnt' = Count("socket")
    /\ PrintAndReturn(MsgNoConnect, 1)
    /\ UNCHANGED <<env, static, activation, session>>
    /\ UNCHANGED <<sigA, invB>>

\* connect() succeeds iff a socket is at the path and its owner listens
Connectable == chan = "socket" /\ listening

connect_socket_connect ==
    /\ pc = "connect"
    /\ Connectable
    /\ cnt' = Count("connect")
    /\ pc' = "banner"
    /\ UNCHANGED <<env, static, activation, session, stdio>>
    /\ UNCHANGED <<sigA, invB>>

\* Faulty variant: a failed connect is tried again with a new socket
connect_socket_connect_fails_retry ==
    /\ pc = "connect"
    /\ ~Connectable
    /\ fd' = "closed"
    /\ cnt' = Count2("connect", "close")
    /\ pc' = "socket"
    /\ UNCHANGED <<env, static, activation, i, buf, peer, peerClosed, respLeft,
                   reqWrites, wire, recvd, ioFailed, stdio>>
    /\ UNCHANGED <<sigA, invB>>

\* Faulty variant: a failed connect falls back to the activator
connect_socket_connect_fails_activates ==
    /\ pc = "connect"
    /\ ~Connectable
    /\ fd' = "closed"
    /\ cnt' = Count2("connect", "close")
    /\ pc' = "creat_primary"
    /\ UNCHANGED <<env, static, activation, i, buf, peer, peerClosed, respLeft,
                   reqWrites, wire, recvd, ioFailed, stdio>>
    /\ UNCHANGED <<sigA, invB>>

\* Faulty variant: connect_socket returns -1 without close(fd)
connect_socket_connect_fails_leaks ==
    /\ pc = "connect"
    /\ ~Connectable
    /\ cnt' = Count("connect")
    /\ PrintAndReturn(MsgNoConnect, 1)
    /\ UNCHANGED <<env, static, activation, session>>
    /\ UNCHANGED <<sigA, invB>>

connect_socket_connect_fails ==
    /\ pc = "connect"
    /\ ~Connectable
    /\ fd' = "closed"
    /\ cnt' = Count2("connect", "close")
    /\ PrintAndReturn(MsgNoConnect, 1)
    /\ UNCHANGED <<env, static, activation, i, buf, peer, peerClosed, respLeft,
                   reqWrites, wire, recvd, ioFailed>>
    /\ UNCHANGED <<sigA, invB>>

\* Faulty variant: read_response is called without write_command
main_banner_skips_request ==
    /\ pc = "banner"
    /\ LET st == Printf(Stdio, MsgConnected)
       IN  out' = st.out /\ stdioBuf' = st.buf
    /\ pc' = "read"
    /\ UNCHANGED <<env, static, activation, session, exitCode, cnt>>
    /\ UNCHANGED <<sigA, invB>>

main_banner ==
    /\ pc = "banner"
    /\ LET st == Printf(Stdio, MsgConnected)
       IN  out' = st.out /\ stdioBuf' = st.buf
    /\ pc' = "write_version"
    /\ UNCHANGED <<env, static, activation, session, exitCode, cnt>>
    /\ UNCHANGED <<sigA, invB>>

(***************************************************************************)
(* write_command.  A write to a connection whose peer has closed fails     *)
(* with EPIPE, and raises SIGPIPE, which ends the process unless the       *)
(* signal is ignored; the code does not look at what write returns.        *)
(***************************************************************************)
\* write(fd, b, Len(b)), the process surviving
SockWrite(b) ==
    /\ reqWrites' = Append(reqWrites, b)
    /\ cnt' = cnt
    /\ IF peerClosed
       THEN wire' = wire /\ ioFailed' = TRUE
       ELSE wire' = wire \o b /\ ioFailed' = ioFailed

\* Faulty variant: write(fd, "1", 1): the version without its NUL
write_command_version_no_nul ==
    /\ pc = "write_version"
    /\ SockWrite(VersionStr)
    /\ i' = 0
    /\ pc' = "write_field"
    /\ UNCHANGED <<env, static, activation, fd, buf, peer, peerClosed, respLeft,
                   recvd, stdio>>
    /\ UNCHANGED <<sigA, invB>>

\* write(fd, "1", 2)
write_command_version ==
    /\ pc = "write_version"
    /\ SockWrite(VersionStr \o <<NUL>>)
    /\ i' = 0
    /\ pc' = "write_field"
    /\ UNCHANGED <<env, static, activation, fd, buf, peer, peerClosed, respLeft,
                   recvd, stdio>>
    /\ UNCHANGED <<sigA, invB>>

\* "i < argc ? argv[i] : """, with write_command's argc = main's argc - 2
FieldArg(k) == IF k < argc - 2 THEN argv[k + 1] ELSE <<>>

\* Faulty variant: "i < 3": the last field is not written
MoreFields_Three(k) == k < NumFields - 1

\* "for (i = 0; i < 4; i++)"
MoreFields(k) == k < NumFields

write_command_field ==
    /\ pc = "write_field"
    /\ MoreFields(i)
    /\ SockWrite(FieldArg(i) \o <<NUL>>)
    /\ i' = i + 1
    /\ UNCHANGED <<pc, env, static, activation, fd, buf, peer, peerClosed,
                   respLeft, recvd, stdio>>
    /\ UNCHANGED <<sigA, invB>>

write_command_return ==
    /\ pc = "write_field"
    /\ ~MoreFields(i)
    /\ pc' = "read"
    /\ UNCHANGED <<env, static, activation, session, stdio, cnt>>
    /\ UNCHANGED <<sigA, invB>>

\* SIGPIPE with its default action: the process ends inside write(), the
\* stdio buffer is lost, the kernel closes the descriptor
write_command_sigpipe ==
    /\ pc \in {"write_version", "write_field"}
    /\ pc = "write_field" => MoreFields(i)
    /\ peerClosed
    /\ ioFailed' = TRUE
    /\ fd' = "closed"
    /\ exitCode' = KilledBySigpipe
    /\ pc' = "exited"
    /\ UNCHANGED <<env, static, activation, i, buf, peer, peerClosed, respLeft,
                   reqWrites, wire, recvd, stdioBuf, out, cnt>>
    /\ UNCHANGED <<sigA, invB>>

(***************************************************************************)
(* read_response.                                                          *)
(***************************************************************************)
\* read(fd, buf, sizeof(buf)) returns n > 0 bytes
read_response_read ==
    /\ pc = "read"
    /\ \E n \in 1..Min(BufSize, Len(peer)) :
          /\ buf' = SubSeq(peer, 1, n)
          /\ peer' = SubSeq(peer, n + 1, Len(peer))
          /\ recvd' = recvd \o SubSeq(peer, 1, n)
    /\ pc' = "write_out"
    /\ UNCHANGED <<env, static, activation, fd, i, peerClosed, respLeft,
                   reqWrites, wire, ioFailed, stdio, cnt>>
    /\ UNCHANGED <<sigA, invB>>

\* Faulty variant: "read(...) >= 0": at the end of the stream the loop goes
\* on, writing no bytes and reading again
read_response_eof_loops ==
    /\ pc = "read"
    /\ peer = <<>>
    /\ peerClosed
    /\ buf' = <<>>
    /\ pc' = "write_out"
    /\ UNCHANGED <<env, static, activation, fd, i, peer, peerClosed, respLeft,
                   reqWrites, wire, recvd, ioFailed, stdio, cnt>>
    /\ UNCHANGED <<sigA, invB>>

\* read() returns 0: the peer has closed and nothing is left to read
read_response_eof ==
    /\ pc = "read"
    /\ peer = <<>>
    /\ peerClosed
    /\ pc' = "close"
    /\ UNCHANGED <<env, static, activation, session, stdio, cnt>>
    /\ UNCHANGED <<sigA, invB>>

\* read() returns -1 (the connection was reset): the loop ends as at EOF
read_response_error ==
    /\ pc = "read"
    /\ peerClosed
    /\ ioFailed' = TRUE
    /\ pc' = "close"
    /\ UNCHANGED <<env, static, activation, fd, i, buf, peer, peerClosed,
                   respLeft, reqWrites, wire, recvd, stdio, cnt>>
    /\ UNCHANGED <<sigA, invB>>

\* How many of the n bytes offered write(1, ...) may accept: all of them,
\* or fewer (a full pipe or disk, a signal); of no bytes, none.
Accepted(n) == IF n = 0 THEN {0} ELSE 1..n

\* write(1, buf, bytes): straight to the descriptor, past the stdio buffer;
\* the code does not look at what write returns
read_response_write ==
    /\ pc = "write_out"
    /\ \E n \in Accepted(Len(buf)) : out' = out \o SubSeq(buf, 1, n)
    /\ buf' = <<>>
    /\ pc' = "read"
    /\ UNCHANGED <<env, static, activation, fd, i, peer, peerClosed, respLeft,
                   reqWrites, wire, recvd, ioFailed, stdioBuf, exitCode, cnt>>
    /\ UNCHANGED <<sigA, invB>>

\* close(fd); printf("\n"); return 0;
main_close ==
    /\ pc = "close"
    /\ fd' = "closed"
    /\ cnt' = Count("close")
    /\ PrintAndReturn(MsgNewline, 0)
    /\ UNCHANGED <<env, static, activation, i, buf, peer, peerClosed, respLeft,
                   reqWrites, wire, recvd, ioFailed>>
    /\ UNCHANGED <<sigA, invB>>

(***************************************************************************)
(* The target process and the peer end of the connection.  The source      *)
(* holds none of this: it is the behaviour the invocation can meet.        *)
(***************************************************************************)
Connected ==
    /\ fd = "open"
    /\ pc \in {"banner", "write_version", "write_field", "read", "write_out", "close"}

\* What the target's handling of the pending SIGQUIT means for the signal
\* this invocation sent: the target found a marker ("seen"), or it found
\* none while the invocation was still in its wait loop ("missed"), or
\* after the loop had ended ("late").
Handled(sig) ==
    IF sig # "pending" THEN sig
    ELSE IF marker["primary"] \/ marker["fallback"] THEN "seen"
    ELSE IF pc \in {"sleep", "poll"} THEN "missed"
    ELSE "late"

\* The target handles SIGQUIT: with a marker in place it may start its
\* attach listener; a target that is no JVM, or finds no marker, does not.
target_start_listener ==
    /\ alive
    /\ sigPending
    /\ marker["primary"] \/ marker["fallback"]
    /\ sigPending' = FALSE
    /\ sigA' = Handled(sigA)
    /\ chan' = "socket"
    /\ listening' = TRUE
    /\ UNCHANGED <<pc, alive, marker, static, activation, session, stdio, cnt,
                   invB>>

target_ignore_signal ==
    /\ alive
    /\ sigPending
    /\ sigPending' = FALSE
    /\ sigA' = Handled(sigA)
    /\ UNCHANGED <<pc, alive, chan, listening, marker, static, activation,
                   session, stdio, cnt, invB>>

\* The target exits: it may or may not remove its socket file, and its end
\* of an open connection closes.
target_exit ==
    /\ alive
    /\ alive' = FALSE
    /\ listening' = FALSE
    /\ sigPending' = FALSE
    /\ chan' \in {chan} \cup (IF chan = "socket" THEN {"absent"} ELSE {})
    /\ peerClosed' = (peerClosed \/ Connected)
    /\ sigA' = IF sigA = "pending" THEN "lost" ELSE sigA
    /\ UNCHANGED <<pc, marker, static, activation, fd, i, buf, peer, respLeft,
                   reqWrites, wire, recvd, ioFailed, stdio, cnt, invB>>

\* The peer answers a request: one more byte of the response.
peer_send ==
    /\ Connected
    /\ pc \in {"read", "write_out"}
    /\ ~peerClosed
    /\ respLeft > 0
    /\ \E b \in RespBytes : peer' = Append(peer, b)
    /\ respLeft' = respLeft - 1
    /\ UNCHANGED <<pc, env, static, activation, fd, i, buf, peerClosed,
                   reqWrites, wire, recvd, ioFailed, stdio, cnt>>
    /\ UNCHANGED <<sigA, invB>>

peer_close ==
    /\ Connected
    /\ ~peerClosed
    /\ peerClosed' = TRUE
    /\ UNCHANGED <<pc, env, static, activation, fd, i, buf, peer, respLeft,
                   reqWrites, wire, recvd, ioFailed, stdio, cnt>>
    /\ UNCHANGED <<sigA, invB>>

Next ==
    \/ main_usage
    \/ main_check_socket
    \/ start_attach_creat_primary
    \/ start_attach_creat_fallback
    \/ start_attach_kill
    \/ start_attach_sleep
    \/ start_attach_poll
    \/ start_attach_unlink
    \/ main_attach_failed
    \/ main_attach_done
    \/ connect_socket_socket
    \/ connect_socket_socket_fails
    \/ connect_socket_connect
    \/ connect_socket_connect_fails
    \/ main_banner
    \/ write_command_version
    \/ write_command_field
    \/ write_command_return
    \/ write_command_sigpipe
    \/ read_response_read
    \/ read_response_eof
    \/ read_response_error
    \/ read_response_write
    \/ main_close
    \/ target_start_listener
    \/ target_ignore_signal
    \/ target_exit
    \/ peer_send
    \/ peer_close

Spec == Init /\ [][Next]_vars

(***************************************************************************)
(* The invocation is a running process: whenever one of its calls can      *)
(* return, it does take its next step.  Nothing obliges the target or the  *)
(* peer to do anything.                                                    *)
(***************************************************************************)
ProgramNext ==
    \/ main_usage
    \/ main_check_socket
    \/ start_attach_creat_primary
    \/ start_attach_creat_fallback
    \/ start_attach_kill
    \/ start_attach_sleep
    \/ start_attach_poll
    \/ start_attach_unlink
    \/ main_attach_failed
    \/ main_attach_done
    \/ connect_socket_socket
    \/ connect_socket_socket_fails
    \/ connect_socket_connect
    \/ connect_socket_connect_fails
    \/ main_banner
    \/ write_command_version
    \/ write_command_field
    \/ write_command_return
    \/ write_command_sigpipe
    \/ read_response_read
    \/ read_response_eof
    \/ read_response_error
    \/ read_response_write
    \/ main_close

SpecFair == Spec /\ WF_vars(ProgramNext)

(***************************************************************************)
(* Two invocations against the same target.  The second runs the same      *)
(* main: check_socket, and if that fails start_attach_mechanism on the     *)
(* same two marker paths and the same process.  What it does once its      *)
(* activator has returned touches neither the markers nor the signal and   *)
(* is left out, as is the first invocation's session.                      *)
(***************************************************************************)
other_check_socket ==
    /\ pcB = "main"
    /\ pcB' = IF NeedsActivation(check_socket) THEN "creat_primary" ELSE "ready"
    /\ UNCHANGED <<pc, env, static, activation, session, stdio, cnt, sigA,
                   pathB, retryB, resultB>>

other_creat_primary ==
    /\ pcB = "creat_primary"
    /\ pathB' = "primary"
    /\ IF CreatablePrimary
       THEN marker' = [marker EXCEPT !["primary"] = TRUE] /\ pcB' = "kill"
       ELSE marker' = marker /\ pcB' = "creat_fallback"
    /\ UNCHANGED <<pc, alive, chan, listening, sigPending, static, activation,
                   session, stdio, cnt, sigA, retryB, resultB>>

other_creat_fallback ==
    /\ pcB = "creat_fallback"
    /\ pathB' = "fallback"
    /\ IF CreatableFallback
       THEN marker' = [marker EXCEPT !["fallback"] = TRUE] /\ pcB' = "kill"
       ELSE marker' = marker /\ pcB' = "failed"
    /\ UNCHANGED <<pc, alive, chan, listening, sigPending, static, activation,
                   session, stdio, cnt, sigA, retryB, resultB>>

\* a signal that is already pending is not queued a second time
other_kill ==
    /\ pcB = "kill"
    /\ sigPending' = (sigPending \/ KillDelivered)
    /\ retryB' = 0
    /\ pcB' = "sleep"
    /\ UNCHANGED <<pc, alive, chan, listening, marker, static, activation,
                   session, stdio, cnt, sigA, pathB, resultB>>

other_sleep ==
    /\ pcB = "sleep"
    /\ pcB' = "poll"
    /\ UNCHANGED <<pc, env, static, activation, session, stdio, cnt, sigA,
                   pathB, retryB, resultB>>

other_poll ==
    /\ pcB = "poll"
    /\ resultB' = check_socket
    /\ retryB' = IF check_socket THEN retryB ELSE retryB + 1
    /\ pcB' = IF LoopAgain(check_socket, retryB) THEN "sleep" ELSE "unlink"
    /\ UNCHANGED <<pc, env, static, activation, session, stdio, cnt, sigA,
                   pathB>>

other_unlink ==
    /\ pcB = "unlink"
    /\ marker' = IF Unlinkable(pathB) THEN [marker EXCEPT ![pathB] = FALSE]
                  ELSE marker
    /\ pcB' = IF resultB THEN "ready" ELSE "failed"
    /\ UNCHANGED <<pc, alive, chan, listening, sigPending, static, activation,
                   session, stdio, cnt, sigA, pathB, retryB, resultB>>

InitTwo ==
    /\ InitProgram
    /\ InitEnv
    /\ argv = <<threaddump>>
    /\ argc = 3
    /\ stdoutTty = TRUE
    /\ respLeft = 0
    /\ pcB = "main"

NextTwo ==
    \/ main_check_socket
    \/ start_attach_creat_primary
    \/ start_attach_creat_fallback
    \/ start_attach_kill
    \/ start_attach_sleep
    \/ start_attach_poll
    \/ start_attach_unlink
    \/ main_attach_failed
    \/ main_attach_done
    \/ other_check_socket
    \/ other_creat_primary
    \/ other_creat_fallback
    \/ other_kill
    \/ other_sleep
    \/ other_poll
    \/ other_unlink
    \/ target_start_listener
    \/ target_ignore_signal
    \/ target_exit

SpecTwo == InitTwo /\ [][NextTwo]_vars

(***************************************************************************)
(* The invocation against a target whose channel is live when main starts, *)
(* for every argument list up to MaxArgs strings: the activator does not   *)
(* run, so its steps are no part of this specification.                    *)
(***************************************************************************)
InitLive ==
    /\ InitProgram
    /\ alive = TRUE
    /\ chan = "socket"
    /\ listening = TRUE
    /\ sigPending = FALSE
    /\ marker = [l \in {"primary", "fallback"} |-> FALSE]
    /\ cwdCreatable = TRUE
    /\ tmpCreatable = TRUE
    /\ sigPerm = TRUE
    /\ argv \in ArgLists
    /\ argc = Len(argv) + 2
    /\ stdoutTty = TRUE
    /\ respLeft = 1
    /\ pcB = "none"

NextLive ==
    \/ main_check_socket
    \/ connect_socket_socket
    \/ connect_socket_socket_fails
    \/ connect_socket_connect
    \/ connect_socket_connect_fails
    \/ main_banner
    \/ write_command_version
    \/ write_command_field
    \/ write_command_return
    \/ write_command_sigpipe
    \/ read_response_read
    \/ read_response_eof
    \/ read_response_error
    \/ read_response_write
    \/ main_close
    \/ target_exit
    \/ peer_send
    \/ peer_close

SpecLive == InitLive /\ [][NextLive]_vars


(***************************************************************************)
(* Properties.                                                             *)
(***************************************************************************)
NoMarker == ~marker["primary"] /\ ~marker["fallback"]

\* start_attach_mechanism has been entered and has got past its creat calls
LoopEntered == cnt["kill"] = 1

\* C1: once main's own check_socket call has found a socket at the channel
\* path, start_attach_mechanism never runs: no creat, no marker, no kill, no
\* sleep, no further check_socket and no unlink, whatever follows (a failed
\* connect included).
C1_NoActivationWhenChannelFound ==
    initCheck =>
        /\ cnt["creat"] = 0
        /\ NoMarker
        /\ cnt["kill"] = 0
        /\ cnt["sleep"] = 0
        /\ cnt["poll"] = 0
        /\ cnt["check"] = 1
        /\ cnt["unlink"] = 0
        /\ path = "none"

\* The channel was found, and the run went on to a connect that failed.
C1_Witness ==
    /\ initCheck
    /\ pc = "exited"
    /\ exitCode = 1
    /\ cnt["connect"] = 1
    /\ out = <<MsgNoConnect>>

\* C2, as stated: at every return of start_attach_mechanism exactly one
\* marker has been created, it has been removed exactly once, and no marker
\* exists at either location.
C2_Original ==
    pc = "attach_ret" =>
        /\ cnt["creatOk"] = 1
        /\ cnt["unlinkOk"] = 1
        /\ NoMarker

\* C2, amended: at every return of start_attach_mechanism at most one marker
\* has been created (none on the early error return, which is the return
\* taken when neither location is creatable); unlink has been called exactly
\* once if a marker was created and not at all otherwise, on the path of the
\* creation; and a marker is left behind only if that unlink failed, at the
\* primary location, whose path no longer resolves once the target is gone.
C2_MarkerRemovalAttemptedOnce ==
    pc = "attach_ret" =>
        /\ cnt["creatOk"] \in {0, 1}
        /\ cnt["creatOk"] = 0 <=> (~LoopEntered /\ cnt["creat"] = 2 /\ path = "fallback")
        /\ cnt["unlink"] = cnt["creatOk"]
        /\ cnt["unlinkOk"] <= cnt["unlink"]
        /\ ~(marker["primary"] /\ marker["fallback"])
        /\ cnt["unlinkOk"] = cnt["creatOk"] => NoMarker
        /\ ~NoMarker => (marker["primary"] /\ path = "primary" /\ ~alive)
        /\ cnt["creatOk"] = 1 =>
              cnt["creat"] = (IF path = "primary" THEN 1 ELSE 2)

\* A marker was created, unlink was called once and failed: the marker is
\* still there when start_attach_mechanism returns.
C2_Witness ==
    /\ pc = "attach_ret"
    /\ cnt["creatOk"] = 1
    /\ cnt["unlink"] = 1
    /\ cnt["unlinkOk"] = 0
    /\ marker["primary"]

\* C3: the loop makes at most 10 check_socket calls, each right after one
\* sleep; once the loop has ended without the channel being seen it has
\* made exactly 10, and start_attach_mechanism returns 0.
C3_PollBudget ==
    /\ cnt["poll"] <= 10
    /\ cnt["sleep"] = (IF pc = "poll" THEN cnt["poll"] + 1 ELSE cnt["poll"])
    /\ (pc \in {"unlink", "attach_ret"} /\ LoopEntered /\ ~result) =>
          (cnt["poll"] = 10 /\ retry = 10)
    /\ (pc = "exited" /\ LoopEntered /\ ~result) =>
          (cnt["poll"] = 10 /\ exitCode = 1)

\* The budget was used up: ten polls, none saw the channel.
C3_Witness ==
    /\ pc = "attach_ret"
    /\ LoopEntered
    /\ ~result
    /\ cnt["poll"] = 10
    /\ cnt["sleep"] = 10

\* C4, as stated: when the loop has seen the channel at its k-th poll, it
\* has made exactly k polls (1 <= k <= 10), makes no more, returns success,
\* and the marker is removed.
C4_Original ==
    result =>
        /\ cnt["poll"] = retry + 1
        /\ cnt["poll"] \in 1..10
        /\ pc \notin {"sleep", "poll"}
        /\ pc \notin {"unlink"} => NoMarker

\* C4, amended: when the loop has seen the channel at its k-th poll, it has
\* made exactly k polls (1 <= k <= 10, the k - 1 failed ones counted by
\* retry), makes no more, returns success, and calls unlink once on the
\* marker; the marker is gone unless that unlink failed, which it does when
\* the marker is at the primary location and the target has exited.
C4_StopsAtFirstReadyPoll ==
    result =>
        /\ cnt["poll"] = retry + 1
        /\ cnt["poll"] \in 1..10
        /\ cnt["sleep"] = cnt["poll"]
        /\ pc \notin {"sleep", "poll"}
        /\ cnt["unlink"] = (IF pc = "unlink" THEN 0 ELSE 1)
        /\ (pc # "unlink" /\ cnt["unlinkOk"] = 1) => NoMarker
        /\ (pc # "unlink" /\ ~NoMarker) =>
              (cnt["unlinkOk"] = 0 /\ path = "primary" /\ ~alive)

\* Scenario D: the channel is seen at the third poll; three polls, success,
\* marker removed.
C4_Witness ==
    /\ pc = "attach_ret"
    /\ result
    /\ cnt["poll"] = 3
    /\ retry = 2
    /\ cnt["unlinkOk"] = 1
    /\ NoMarker

(***************************************************************************)
(* A receiver that reads NUL-terminated strings off the connection: the    *)
(* fields of a byte sequence, bytes after the last NUL dropped.            *)
(***************************************************************************)
RECURSIVE SplitAcc(_, _, _)
SplitAcc(bs, cur, acc) ==
    IF bs = <<>> THEN acc
    ELSE IF Head(bs) = NUL
         THEN SplitAcc(Tail(bs), <<>>, Append(acc, cur))
         ELSE SplitAcc(Tail(bs), Append(cur, Head(bs)), acc)

Split(bs) == SplitAcc(bs, <<>>, <<>>)

\* write_command has returned
WriteCommandDone ==
    \/ pc \in {"read", "write_out", "close"}
    \/ pc = "exited" /\ exitCode = 0

\* the k-th string the caller gave after the pid, "" if there is none
Supplied(k) == IF k <= Len(argv) THEN argv[k] ELSE <<>>

\* C5: for every argument list of length >= 1, write_command makes five
\* writes: "1" and a NUL, then the command and the first three arguments,
\* each with its NUL, an empty string for one not supplied; a fifth and
\* later argument is not sent; and, unless the peer had closed, the peer
\* receives exactly these bytes, which split at the NULs into the version
\* and the supplied fields in the order given.
C5_RequestEncoding ==
    WriteCommandDone =>
        /\ Len(reqWrites) = 5
        /\ reqWrites[1] = <<49, 0>>
        /\ \A k \in 1..4 : reqWrites[k + 1] = Supplied(k) \o <<0>>
        /\ ~peerClosed => wire = Flatten(reqWrites)
        /\ wire = Flatten(reqWrites) =>
              /\ Len(Split(wire)) = 5
              /\ Split(wire)[1] = <<49>>
              /\ \A k \in 1..4 : Split(wire)[k + 1] = Supplied(k)
              /\ \A k \in 1..Min(Len(argv), 4) : Split(wire)[k + 1] = argv[k]

\* Five strings were given, the second of them empty, and the request is
\* with the peer.
C5_Witness ==
    /\ pc = "read"
    /\ Len(argv) = 5
    /\ argv[2] = <<>>
    /\ argv[5] # <<>>
    /\ ~peerClosed
    /\ Len(wire) > 0

\* Scenario A: the channel is there when main looks, the command is
\* threaddump with no argument, and write_command has returned.
ScenarioA ==
    /\ initCheck
    /\ argv = <<threaddump>>
    /\ WriteCommandDone

\* C6, as stated: in scenario A one connection is opened and the bytes
\* written to it are "1", NUL, "threaddump", NUL, NUL, NUL.
C6_Original ==
    ScenarioA =>
        /\ cnt["socket"] = 1
        /\ cnt["connect"] = 1
        /\ Flatten(reqWrites) = <<49, 0>> \o threaddump \o <<0, 0, 0>>

\* C6, amended: in scenario A one connection is opened and the bytes written
\* to it are "1", NUL, "threaddump", NUL, NUL, NUL, NUL: the version, the
\* command and three empty argument fields, sixteen bytes and no more.
C6_ScenarioARequest ==
    ScenarioA =>
        /\ cnt["socket"] = 1
        /\ cnt["connect"] = 1
        /\ Flatten(reqWrites) = <<49, 0>> \o threaddump \o <<0, 0, 0, 0>>
        /\ Len(Flatten(reqWrites)) = 16
        /\ ~peerClosed => wire = Flatten(reqWrites)

\* Scenario A run to its end: the request went out whole, a response came
\* back, exit status 0.
C6_Witness ==
    /\ ScenarioA
    /\ pc = "exited"
    /\ exitCode = 0
    /\ wire = <<49, 0>> \o threaddump \o <<0, 0, 0, 0>>
    /\ recvd # <<>>

IsByte(b) == b >= 0

\* the response bytes descriptor 1 has accepted
Relayed == SelectSeq(out, IsByte)

\* C7: whenever read_response is between two rounds of its loop, or has
\* returned, the bytes it has put on the output are the bytes it has read,
\* in order, however the stream was cut into reads and whatever write(1)
\* accepted.
C7_RelayIsExact ==
    pc \in {"read", "close", "exited"} => Relayed = recvd

\* C8: if kill() did not deliver the signal, the activator neither sleeps
\* nor polls.
C8_NoPollAfterFailedSignal ==
    (cnt["kill"] = 1 /\ cnt["killOk"] = 0) =>
        (cnt["sleep"] = 0 /\ cnt["poll"] = 0)

HasDiagnostic ==
    \E k \in 1..Len(out) : out[k] \in {MsgUsage, MsgNoStart, MsgNoConnect}

\* C9: an invocation in which a write of the request or the read of the
\* response failed ends with a diagnostic and a non-zero exit status; exit
\* status 0 means the request was written whole and the response was read
\* to the peer's close without an error.
C9_IoErrorIsReported ==
    pc = "exited" =>
        /\ ioFailed => (exitCode # 0 /\ HasDiagnostic)
        /\ exitCode = 0 => (~ioFailed /\ wire = Flatten(reqWrites) /\ peer = <<>>)

\* start_attach_mechanism was called and has returned 0
ActivatorFailed ==
    /\ pc \in {"attach_ret", "exited"}
    /\ cnt["check"] >= 1
    /\ ~initCheck
    /\ ~result

\* C10: once the activator has returned failure the invocation has made and
\* makes no socket, no connect and no write of the request, and it ends with
\* the "could not start" line as its only output and exit status 1; and no
\* step of the invocation puts a file at the channel path.
C10_FailedActivationEndsRun ==
    /\ [](ActivatorFailed =>
            /\ cnt["socket"] = 0
            /\ cnt["connect"] = 0
            /\ fd = "none"
            /\ reqWrites = <<>>
            /\ wire = <<>>
            /\ pc = "exited" => (exitCode = 1 /\ out = <<MsgNoStart>>))
    /\ [](cnt["socket"] > 0 => (initCheck \/ result))
    /\ [][chan' # chan => UNCHANGED <<pc, i, cnt, out, stdioBuf, fd>>]_vars

\* The poll budget ran out and the invocation ended.
C10_Witness ==
    /\ ActivatorFailed
    /\ pc = "exited"
    /\ cnt["poll"] = 10
    /\ exitCode = 1
    /\ out = <<MsgNoStart>>

\* C11: connect is attempted at most once in an invocation, on at most one
\* socket; a connect that fails ends the invocation in that same step with
\* exit status 1 and the "could not connect" line as its only output, no
\* request byte written and no further check_socket, creat, kill or sleep;
\* and once the invocation has exited it makes no call and writes nothing.
C11_ConnectFailureIsTerminal ==
    /\ [](cnt["connect"] <= 1 /\ cnt["socket"] <= 1)
    /\ [][(pc = "connect" /\ pc' # "connect" /\ ~Connectable) =>
            /\ pc' = "exited"
            /\ exitCode' = 1
            /\ out' = <<MsgNoConnect>>
            /\ reqWrites' = <<>>
            /\ wire' = <<>>
            /\ fd' = "closed"
            /\ \A c \in Calls \ {"connect", "close"} : cnt'[c] = cnt[c]]_vars
    /\ [][pc = "exited" =>
            (pc' = "exited" /\ cnt' = cnt /\ reqWrites' = reqWrites /\ out' = out)]_vars

\* The activation succeeded, the target exited before the connect, and the
\* invocation ended on the failed connect.
C11_Witness ==
    /\ result
    /\ ~alive
    /\ pc = "exited"
    /\ exitCode = 1
    /\ cnt["connect"] = 1
    /\ cnt["poll"] >= 1
    /\ out = <<MsgNoConnect>>

\* C12: an invocation with fewer than 2 arguments after the program name
\* (argc < 3) makes no call at all: no stat, creat, unlink, kill, sleep,
\* socket or connect; it prints the usage line and ends with exit status 1.
C12_UsageErrorTouchesNothing ==
    argc < 3 =>
        /\ pc \in {"main", "exited"}
        /\ \A c \in Calls : cnt[c] = 0
        /\ NoMarker
        /\ fd = "none"
        /\ reqWrites = <<>>
        /\ pc = "main" => (out = <<>> /\ exitCode = -1)
        /\ pc = "exited" => (out = <<MsgUsage>> /\ exitCode = 1)

\* Scenario C: the program name and one argument; the run has ended.
C12_Witness ==
    /\ argc = 2
    /\ pc = "exited"
    /\ exitCode = 1
    /\ out = <<MsgUsage>>

(***************************************************************************)
(* The orchestrator's state, read off the position in main.  NOT_READY is  *)
(* the instant between the failed check and the activator's first call,    *)
(* SENT the instant write_command returns; neither spans a step.           *)
(***************************************************************************)
OStateOf(p, code) ==
    CASE p = "main" -> "INIT"
      [] p \in {"creat_primary", "creat_fallback", "kill", "sleep", "poll",
                "unlink", "attach_ret"} -> "ACTIVATING"
      [] p \in {"socket", "connect"} -> "READY"
      [] p \in {"banner", "write_version", "write_field"} -> "CONNECTED"
      [] p \in {"read", "write_out", "close"} -> "RELAYING"
      [] p = "exited" /\ code = 0 -> "DONE"
      [] p = "exited" /\ code # 0 -> "FAILED"

OState == OStateOf(pc, exitCode)

OrderedStates ==
    {<<"INIT", "ACTIVATING">>, <<"INIT", "READY">>, <<"ACTIVATING", "READY">>,
     <<"READY", "CONNECTED">>, <<"CONNECTED", "RELAYING">>, <<"RELAYING", "DONE">>}

FailingStates == {"INIT", "ACTIVATING", "READY", "CONNECTED", "RELAYING"}

\* C13: the orchestrator's state changes only along INIT, READY or
\* ACTIVATING, READY, CONNECTED, RELAYING, DONE, or to FAILED; this order
\* has no way back, so no state is entered twice; nothing happens after DONE
\* or FAILED; the request is written only on a connection that was
\* established, and the response is read only after the five writes of the
\* request.
C13_StateOrder ==
    /\ [][OStateOf(pc', exitCode') # OState =>
            \/ <<OState, OStateOf(pc', exitCode')>> \in OrderedStates
            \/ OState \in FailingStates /\ OStateOf(pc', exitCode') = "FAILED"]_vars
    /\ [][pc = "exited" =>
            (pc' = "exited" /\ exitCode' = exitCode /\ stdioBuf' = stdioBuf /\ fd' = fd)]_vars
    /\ [](reqWrites # <<>> => (cnt["connect"] = 1 /\ fd # "none"))
    /\ []((pc \in {"read", "write_out", "close"} \/ recvd # <<>>) =>
            Len(reqWrites) = 5)
    /\ [](OState = "DONE" => (Len(reqWrites) = 5 /\ cnt["connect"] = 1 /\ fd = "closed"))

\* A run through every state of the longest path: activation, connect,
\* request, a relayed response, DONE.
C13_Witness ==
    /\ OState = "DONE"
    /\ result
    /\ cnt["poll"] >= 1
    /\ Len(reqWrites) = 5
    /\ recvd # <<>>

\* read() waits: nothing to read, and the peer has not closed
BlockedInRead == pc = "read" /\ peer = <<>> /\ ~peerClosed

\* C14: the calls before the relay are bounded in number (at most 2 creat,
\* 1 kill, 10 sleeps, 11 check_socket, 1 unlink, 1 socket, 1 connect and 5
\* writes of the request), and every run of the invocation ends, in DONE or
\* FAILED, unless from some point on it waits for ever in read() on a
\* connection whose peer neither sends nor closes.
C14_TerminatesUnlessPeerNeverCloses ==
    /\ [](/\ cnt["creat"] <= 2
          /\ cnt["kill"] <= 1
          /\ cnt["sleep"] <= 10
          /\ cnt["check"] <= 11
          /\ cnt["unlink"] <= 1
          /\ cnt["socket"] <= 1
          /\ cnt["connect"] <= 1
          /\ Len(reqWrites) <= 5)
    /\ (<>(pc = "exited") \/ <>[]BlockedInRead)

\* A run that used the whole poll budget but its last poll, was answered
\* and ended after the peer closed.
C14_Witness ==
    /\ pc = "exited"
    /\ exitCode = 0
    /\ cnt["poll"] = 10
    /\ peerClosed
    /\ recvd # <<>>

(***************************************************************************)
(* C15: two concurrent invocations against the same target collide on the  *)
(* marker benignly: the marker exists whenever the target handles a signal *)
(* sent by an invocation that is still in its wait loop, and no invocation *)
(* fails with "could not start attach mechanism" because of the other.     *)
(* Checked under SpecTwo for the first invocation; the second one's        *)
(* unlink(path) removes the marker both share.                             *)
(***************************************************************************)
\* The first invocation's signal was handled with no marker in place while
\* it waited, the target is still running and never started its listener,
\* and the invocation gave up.
FailedBecauseOfOther ==
    /\ sigA = "missed"
    /\ alive
    /\ chan = "absent"
    /\ pc = "exited"
    /\ exitCode = 1
    /\ out = <<MsgNoStart>>

\* C15, second clause alone: no invocation fails with "could not start
\* attach mechanism" because the other removed the marker.
C15_NoFailureBecauseOfOther == pcB # "none" => ~FailedBecauseOfOther

(***************************************************************************)
(* C16: the connection is released on every exit path: at every terminal   *)
(* state no socket descriptor the invocation opened is still open, and     *)
(* each opened descriptor is closed exactly once.  close(fd) is called     *)
(* only on an open descriptor and at most once; an invocation that ended   *)
(* by return with a descriptor opened has called it once.  A process       *)
(* killed by SIGPIPE has its descriptor released by the kernel.            *)
(***************************************************************************)
C16_DescriptorReleased ==
    /\ [](pc = "exited" => fd # "open")
    /\ [](cnt["socket"] <= 1 /\ cnt["close"] <= 1)
    /\ [](cnt["close"] = 1 => fd = "closed")
    /\ [][cnt'["close"] # cnt["close"] => fd = "open" /\ fd' = "closed"]_vars
    /\ [](pc = "exited" /\ fd = "closed" /\ exitCode # KilledBySigpipe
            => cnt["close"] = 1)

\* connect() failed on a descriptor socket() had opened, after an activation
C16_Witness ==
    /\ pc = "exited"
    /\ exitCode = 1
    /\ out = <<MsgNoConnect>>
    /\ cnt["socket"] = 1
    /\ cnt["close"] = 1
    /\ cnt["creatOk"] = 1
    /\ fd = "closed"

(***************************************************************************)
(* C17: within the activator the events are ordered marker creation, then  *)
(* signal, then polls, then marker removal: the signal is sent at most     *)
(* once and only after a marker was created, the marker exists from the    *)
(* signal until the wait loop has ended, and if neither location is        *)
(* creatable the activator fails without any signal and without polling.   *)
(* Checked for one invocation; what a second one does to the marker is     *)
(* C15.                                                                    *)
(***************************************************************************)
Called(call) == cnt'[call] # cnt[call]

C17_ActivatorOrder ==
    /\ [][Called("creat") => cnt["kill"] = 0 /\ cnt["poll"] = 0
                              /\ cnt["unlink"] = 0]_vars
    /\ [][Called("kill") => cnt["kill"] = 0 /\ cnt["creatOk"] = 1
                             /\ marker[path] /\ cnt["poll"] = 0
                             /\ cnt["unlink"] = 0]_vars
    /\ [][Called("poll") => cnt["kill"] = 1 /\ marker[path]
                             /\ cnt["unlink"] = 0]_vars
    /\ [][Called("unlink") => cnt["poll"] >= 1 /\ cnt["unlink"] = 0]_vars
    /\ [](pc \in {"sleep", "poll"} => cnt["kill"] = 1 /\ marker[path])
    /\ [](cnt["creat"] = 2 /\ cnt["creatOk"] = 0
            => /\ cnt["kill"] = 0
               /\ cnt["sleep"] = 0
               /\ cnt["poll"] = 0
               /\ cnt["unlink"] = 0
               /\ ~result
               /\ pc \in {"attach_ret", "exited"})

\* a full activation that ran all four kinds of event
C17_Witness ==
    /\ cnt["creatOk"] = 1
    /\ cnt["kill"] = 1
    /\ cnt["poll"] = 3
    /\ cnt["unlinkOk"] = 1
    /\ result
    /\ NoMarker

\* neither location creatable
C17_WitnessNoMarker ==
    /\ cnt["creat"] = 2
    /\ cnt["creatOk"] = 0
    /\ pc = "exited"
    /\ out = <<MsgNoStart>>

(***************************************************************************)
(* C18: the two marker locations are tried in order and the first          *)
(* successful creation wins: the fallback location is attempted only when  *)
(* creation at the primary location failed, a marker is never created at   *)
(* both locations in one invocation, and the path removed at the end is    *)
(* exactly the path at which the marker was created.                       *)
(***************************************************************************)
Locations == {"primary", "fallback"}

C18_MarkerLocations ==
    /\ [][Called("creat")
            => /\ cnt["creat"] = 0 => path' = "primary"
               /\ cnt["creat"] = 1 => path' = "fallback" /\ cnt["creatOk"] = 0
               /\ cnt["creat"] < 2
               /\ \A p \in Locations :
                     marker'[p] = (marker[p] \/ (p = path' /\ Called("creatOk")))
           ]_vars
    /\ [](cnt["creatOk"] <= 1 /\ ~(marker["primary"] /\ marker["fallback"]))
    /\ [](cnt["creatOk"] = 1 /\ cnt["unlinkOk"] = 0
            => marker[path] /\ \A p \in Locations \ {path} : ~marker[p])
    /\ [][Called("unlink")
            => /\ cnt["creatOk"] = 1
               /\ path' = path
               /\ \A p \in Locations :
                     marker'[p] = (marker[p] /\ ~(p = path /\ Called("unlinkOk")))
           ]_vars
    /\ [](cnt["unlinkOk"] = 1 => NoMarker)

\* the primary location failed, the marker was created at the fallback
\* location and removed from there
C18_Witness ==
    /\ cnt["creat"] = 2
    /\ cnt["creatOk"] = 1
    /\ path = "fallback"
    /\ cnt["unlinkOk"] = 1
    /\ NoMarker
    /\ pc = "exited"

(***************************************************************************)
(* C19: a stale channel is never repaired by activation.  If the initial   *)
(* check found a socket at the channel path and the connect then fails,    *)
(* the invocation exits 1 with the "could not connect" diagnostic and      *)
(* creates no marker, sends no signal and polls at no point: not before    *)
(* the connect, not in the step of the failed connect, not after it.       *)
(***************************************************************************)
ActivatorCalls == {"creat", "creatOk", "kill", "killOk", "sleep", "poll",
                   "unlink", "unlinkOk"}

StaleConnect == initCheck /\ Called("connect") /\ ~Connectable

C19_StaleChannelNotRepaired ==
    /\ [][StaleConnect
            => /\ pc' = "exited"
               /\ exitCode' = 1
               /\ out' = <<MsgNoConnect>>
               /\ cnt'["check"] = 1
               /\ \A c \in ActivatorCalls : cnt[c] = 0 /\ cnt'[c] = 0
               /\ NoMarker /\ marker' = marker
               /\ sigA' = "none"]_vars
    /\ [][initCheck /\ pc = "exited" /\ cnt["connect"] = 1
            => pc' = "exited" /\ cnt' = cnt /\ marker' = marker
               /\ sigA' = "none"]_vars

\* the socket file was left by a target that is gone
C19_Witness ==
    /\ initCheck
    /\ ~alive
    /\ chan = "socket"
    /\ pc = "exited"
    /\ exitCode = 1
    /\ out = <<MsgNoConnect>>
    /\ cnt["connect"] = 1
    /\ cnt["check"] = 1
    /\ fd = "closed"

\* the target was there at the check and gone at the connect
C19_WitnessRace ==
    /\ initCheck
    /\ ~alive
    /\ chan = "absent"
    /\ pc = "exited"
    /\ out = <<MsgNoConnect>>
    /\ cnt["connect"] = 1

(***************************************************************************)
(* C20: on every successful invocation the bytes that reach standard       *)
(* output are, in this order, the "Connected" banner line, then all        *)
(* relayed response bytes, then one trailing newline; the banner reaches   *)
(* the output before the first response byte, whether or not standard      *)
(* output is line buffered.  The relayed bytes are taken as write(1)       *)
(* accepted them, so nothing here depends on a short write.                *)
(***************************************************************************)
C20_BannerBeforeResponse ==
    /\ Relayed # <<>> => out[1] = MsgConnected
    /\ pc = "exited" /\ exitCode = 0
         => out = <<MsgConnected>> \o Relayed \o <<MsgNewline>>

=============================================================================
